---- MODULE Spec2Model ----
(***************************************************************************)
(* Model of Sex.DetERRmine.py: a streaming aggregation of per-sample read  *)
(* depth over three partitions (autosomes, X, Y) followed by a rate        *)
(* estimator and a sex classification.                                     *)
(*                                                                         *)
(* The script is a single module-level program; its globals are the state. *)
(* Floats are modelled as exact normalised rationals <<num, den>>; the     *)
(* square root of the error formulas cannot be taken exactly, so the model *)
(* keeps the SQUARE of every error (rateErrSq is rateErr**2).              *)
(* A string that the code slices (the first field of a line) is a sequence *)
(* of one-character strings; every other token is a string.                *)
(***************************************************************************)
EXTENDS Integers, Sequences, FiniteSets, TLC

VARIABLES
    useList,    \* args.SampleList != None
    Names,      \* OrderedDict sample -> column index, as a sequence of [name, idx]
    bound,      \* TRUE once the globals NrAut, NrX, NrY are assigned
    NrAut, NrX, NrY,        \* per-slot summed depth
    AutSnps, XSnps, YSnps,  \* global site counters
    fields,     \* fields of the last line read
    Chrom,      \* chromosome name of the last line read
    lineNo,     \* number of lines consumed from args.Input
    pc,         \* position of the script
    err,        \* the exception that ended the run, "" when none
    out,        \* rows printed on stdout
    data,       \* the OrderedDict dumped to sexdeterrmine.json
    jsonFile,   \* content of sexdeterrmine.json, <<>> while it is not written
    todo,       \* the samples the report loop still has to visit
    Ind,        \* loop variable of the report loop
    rate, rateErrSq   \* result of the last CalcErrors call

vars == <<useList, Names, bound, NrAut, NrX, NrY, AutSnps, XSnps, YSnps,
          fields, Chrom, lineNo, pc, err, out, data, jsonFile, todo, Ind,
          rate, rateErrSq>>

----------------------------------------------------------------------------
(* Bounds of the model *)
MaxLines == 3       \* lines read from the depth stream
MaxSamples == 2     \* names in a sample list or in a header line

SampleNames == {"A", "B"}
VERSION == "1.1.3"

----------------------------------------------------------------------------
(* Exact rational arithmetic standing for float arithmetic *)
RECURSIVE GCD(_, _)
GCD(a, b) == IF b = 0 THEN a ELSE GCD(b, a % b)

Rat(n, d) == LET g == GCD(n, d) IN <<n \div g, d \div g>>
Zero == <<0, 1>>
RMul(a, b) == LET g1 == GCD(a[1], b[2])
                  g2 == GCD(b[1], a[2])
                  h1 == IF g1 = 0 THEN 1 ELSE g1
                  h2 == IF g2 = 0 THEN 1 ELSE g2
              IN  Rat((a[1] \div h1) * (b[1] \div h2), (a[2] \div h2) * (b[2] \div h1))
RDiv(a, b) == RMul(a, <<b[2], b[1]>>)      \* b # Zero
RAdd(a, b) == LET g == GCD(a[2], b[2])
              IN  Rat(a[1] * (b[2] \div g) + b[1] * (a[2] \div g), (a[2] \div g) * b[2])
RSq(a) == RMul(a, a)
RGe(a, b) == a[1] * b[2] >= b[1] * a[2]
RLe(a, b) == a[1] * b[2] <= b[1] * a[2]
RLt(a, b) == a[1] * b[2] < b[1] * a[2]

----------------------------------------------------------------------------
(* Python list and dict helpers *)
Zeros(n) == [i \in 1..n |-> 0]                       \* [0 for x in range(n)]
Take(s, n) == SubSeq(s, 1, IF Len(s) < n THEN Len(s) ELSE n)     \* s[0:n]
Drop(s, n) == IF Len(s) <= n THEN <<>> ELSE SubSeq(s, n + 1, Len(s))  \* s[n:]

\* OrderedDict.update({key: value}): an existing key keeps its place and takes
\* the new value, a new key is appended.
HasKey(d, key) == \E k \in 1..Len(d) : d[k].name = key
DictUpdate(d, key, value) ==
    IF HasKey(d, key)
    THEN [k \in 1..Len(d) |-> IF d[k].name = key THEN [name |-> key, idx |-> value] ELSE d[k]]
    ELSE Append(d, [name |-> key, idx |-> value])

\* for idx,Sample in enumerate(Samples): Names.update({Sample:idx}), from
\* position k of Samples on.
RECURSIVE UpdateAll(_, _, _)
UpdateAll(d, Samples, k) ==
    IF k > Len(Samples) THEN d
    ELSE UpdateAll(DictUpdate(d, Samples[k], k - 1), Samples, k + 1)

Lookup(d, key) == d[CHOOSE k \in 1..Len(d) : d[k].name = key].idx     \* d[key]

----------------------------------------------------------------------------
(* Tokens of a line *)
chr == <<"c", "h", "r">>
strX == <<"X">>
strY == <<"Y">>

\* int(x) on a token of one character: a decimal digit parses to its value,
\* every other token raises ValueError.
Digits == <<"0", "1", "2", "3", "4", "5", "6", "7", "8", "9">>
IsInt(tok) == \E k \in 1..Len(Digits) : Digits[k] = tok
int(tok) == (CHOOSE k \in 1..Len(Digits) : Digits[k] = tok) - 1

\* StripChr without the prefix removal.
StripChrMut(f) == f

\* Lines 88-91: Chrom is the first field without one leading "chr".
StripChr(f) == IF Take(f, 3) = chr THEN Drop(f, 3) ELSE f

IsHeader(l) == Len(l) > 0 /\ l[1][1] = "#"
IsData(l) == Len(l) > 0 /\ l[1][1] # "#"

----------------------------------------------------------------------------
(* The input: the optional sample list and the lines of the depth stream *)
RECURSIVE SeqsUpTo(_, _)
SeqsUpTo(S, n) ==
    IF n = 0 THEN {<<>>}
    ELSE LET shorter == SeqsUpTo(S, n - 1)
         IN  shorter \cup {Append(s, x) : s \in {t \in shorter : Len(t) = n - 1}, x \in S}

SampleLists == SeqsUpTo(SampleNames, MaxSamples)
DepthTokens == {"0", "1"}
HeaderField == <<"#", "C", "H", "R">>
ChromFields == {<<"c", "h", "r", "X">>, <<"X">>, <<"c", "h", "r", "Y">>, <<"Y">>,
                <<"c", "h", "r", "7">>, <<"7">>, <<"x">>, <<"y">>}

HeaderLines == {<<HeaderField, "POS">> \o names : names \in SampleLists}
GoodDataLines == {<<c, "1">> \o toks : c \in ChromFields, toks \in SeqsUpTo(DepthTokens, MaxSamples)}
BadDataLines == {<<<<"7">>, "1", "NA">>}        \* a token int() rejects
DataLines == GoodDataLines \cup BadDataLines

----------------------------------------------------------------------------
(* Lines 73-85: the state when the main loop starts *)
Init ==
    /\ useList \in BOOLEAN
    /\ \E Samples \in SampleLists :
          IF useList
          THEN /\ Names = UpdateAll(<<>>, Samples, 1)
               /\ bound = TRUE
          ELSE /\ Names = <<>>
               /\ bound = FALSE
    /\ NrAut = Zeros(Len(Names)) /\ NrX = Zeros(Len(Names)) /\ NrY = Zeros(Len(Names))
    /\ AutSnps = 0 /\ XSnps = 0 /\ YSnps = 0
    /\ fields = <<>> /\ Chrom = <<>> /\ lineNo = 0
    /\ pc = "loop" /\ err = ""
    /\ out = <<>> /\ data = <<>> /\ jsonFile = <<>>
    /\ todo = <<>> /\ Ind = "" /\ rate = <<>> /\ rateErrSq = <<>>

aggregates == <<Names, bound, NrAut, NrX, NrY, AutSnps, XSnps, YSnps>>
report == <<out, data, jsonFile, todo, Ind, rate, rateErrSq>>

\* An uncaught exception ends the run.
Raise(e) == pc' = "error" /\ err' = e

----------------------------------------------------------------------------
(* Lines 86-116: one iteration of the main loop *)

\* A line without fields: fields[0] raises IndexError at line 88.
BlankLine ==
    /\ pc = "loop" /\ lineNo < MaxLines
    /\ lineNo' = lineNo + 1
    /\ fields' = <<>>
    /\ Raise("IndexError")
    /\ UNCHANGED <<useList, Chrom, aggregates, report>>

\* Lines 92-102: a line whose first field starts with "#". Without a sample list
\* its names are merged into Names and the three depth lists are rebuilt.
HeaderLine(l) ==
    /\ pc = "loop" /\ lineNo < MaxLines
    /\ IsHeader(l)
    /\ lineNo' = lineNo + 1
    /\ fields' = l
    /\ Chrom' = StripChr(l[1])
    /\ IF ~useList
       THEN /\ Names' = UpdateAll(Names, Drop(l, 2), 1)
            /\ NrAut' = Zeros(Len(Names'))
            /\ NrX' = Zeros(Len(Names'))
            /\ NrY' = Zeros(Len(Names'))
            /\ bound' = TRUE
       ELSE UNCHANGED <<Names, NrAut, NrX, NrY, bound>>
    /\ UNCHANGED <<useList, AutSnps, XSnps, YSnps, pc, err, report>>

\* ctr[i] += depths[i] of lines 112, 114, 116: IndexError when either list is
\* too short, and then nothing is stored.
InRange(ctr, i, depths) == i < Len(ctr) /\ i < Len(depths)
Bump(ctr, i, depths) == [ctr EXCEPT ![i + 1] = @ + depths[i + 1]]

\* Lines 110-116: for x in Names, from position k on. acc holds the three lists
\* and whether the loop is still running; it stops at the first IndexError.
RECURSIVE AddDepths(_, _, _, _, _)
AddDepths(k, N, acc, depths, C) ==
    IF k > Len(N) THEN acc
    ELSE LET i == N[k].idx
             isAut == C # strY /\ C # strX
             ctr == IF isAut THEN acc.NrAut ELSE IF C = strY THEN acc.NrY ELSE acc.NrX
         IN  IF ~InRange(ctr, i, depths)
             THEN [acc EXCEPT !.ok = FALSE]
             ELSE AddDepths(k + 1, N,
                    [ok |-> TRUE,
                     NrAut |-> IF isAut THEN Bump(acc.NrAut, i, depths) ELSE acc.NrAut,
                     NrY |-> IF C = strY THEN Bump(acc.NrY, i, depths) ELSE acc.NrY,
                     NrX |-> IF C = strX THEN Bump(acc.NrX, i, depths) ELSE acc.NrX],
                    depths, C)

\* Lines 103-116: a data line.
DataLine(l) ==
    /\ pc = "loop" /\ lineNo < MaxLines
    /\ IsData(l)
    /\ lineNo' = lineNo + 1
    /\ fields' = l
    /\ Chrom' = StripChr(l[1])
    /\ LET toks == Drop(l, 2)
       IN  IF \E k \in 1..Len(toks) : ~IsInt(toks[k])
           THEN /\ Raise("ValueError")
                /\ UNCHANGED aggregates
           ELSE LET depths == [k \in 1..Len(toks) |-> int(toks[k])]
                    res == AddDepths(1, Names, [ok |-> TRUE, NrAut |-> NrAut, NrY |-> NrY, NrX |-> NrX],
                                     depths, Chrom')
                IN  /\ AutSnps' = IF Chrom' # strY /\ Chrom' # strX THEN AutSnps + 1 ELSE AutSnps
                    /\ YSnps' = IF Chrom' = strY THEN YSnps + 1 ELSE YSnps
                    /\ XSnps' = IF Chrom' = strX THEN XSnps + 1 ELSE XSnps
                    /\ NrAut' = res.NrAut /\ NrX' = res.NrX /\ NrY' = res.NrY
                    /\ IF res.ok THEN UNCHANGED <<pc, err>> ELSE Raise("IndexError")
                    /\ UNCHANGED <<Names, bound>>
    /\ UNCHANGED <<useList, report>>

----------------------------------------------------------------------------
\* determine_sex with "<=" for "<" on the Female Y threshold.
determine_sex_mut(rate_x, rate_y) ==
    IF RGe(rate_x, <<4, 5>>) /\ RLe(rate_y, <<1, 20>>) THEN "Female"
    ELSE IF RLe(<<7, 20>>, rate_x) /\ RLe(rate_x, <<13, 20>>) /\ RGe(rate_y, <<1, 10>>) THEN "Male"
    ELSE "Undetermined"

(* Lines 8-28 *)
determine_sex(rate_x, rate_y) ==
    IF RGe(rate_x, <<4, 5>>) /\ RLt(rate_y, <<1, 20>>) THEN "Female"
    ELSE IF RLe(<<7, 20>>, rate_x) /\ RLe(rate_x, <<13, 20>>) /\ RGe(rate_y, <<1, 10>>) THEN "Male"
    ELSE "Undetermined"

(* Lines 30-56. The result carries ok = FALSE for a ZeroDivisionError: at    *)
(* line 49 or 50 when a site count is zero, at line 53 or 54 when the        *)
(* autosomal depth per site is zero. Index 1, 2, 3 is Aut, X, Y.             *)
\* The degenerate branch never taken; the ratio taken upside down.
DegenerateMut(Total) == Total < 0
RateOfMut(dpBin, dpAut) == IF dpBin = Zero THEN Zero ELSE RDiv(dpAut, dpBin)
Degenerate(Total) == Total = 0
RateOf(dpBin, dpAut) == RDiv(dpBin, dpAut)
CalcErrors(aSnps, xSnps, ySnps, nAut, nX, nY) ==
    LET SNPs == <<aSnps, xSnps, ySnps>>
        Reads == <<nAut, nX, nY>>
        Total == nAut + nX + nY
        zeros == [Aut |-> Zero, X |-> Zero, Y |-> Zero]
        failed == [ok |-> FALSE, rate |-> <<>>, rateErrSq |-> <<>>]
    IN  IF Degenerate(Total)
        THEN [ok |-> TRUE, rate |-> zeros, rateErrSq |-> zeros]
        ELSE IF \E i \in 1..3 : SNPs[i] = 0
        THEN failed
        ELSE LET p == [i \in 1..3 |-> Rat(Reads[i], Total)]
                 ErrNrSq == [i \in 1..3 |-> RMul(<<Total, 1>>, p[i])]
                 dp == [i \in 1..3 |-> Rat(Reads[i], SNPs[i])]
                 ErrdpSq == [i \in 1..3 |-> RDiv(ErrNrSq[i], <<SNPs[i] * SNPs[i], 1>>)]
                 errSq(i) == RAdd(RDiv(ErrdpSq[i], RSq(dp[1])),
                                  RMul(ErrdpSq[1], RSq(RDiv(dp[i], RSq(dp[1])))))
             IN  IF dp[1] = Zero
                 THEN failed
                 ELSE [ok |-> TRUE,
                       rate |-> [X |-> RateOf(dp[2], dp[1]), Y |-> RateOf(dp[3], dp[1])],
                       rateErrSq |-> [X |-> errSq(2), Y |-> errSq(3)]]

----------------------------------------------------------------------------
(* Lines 118-147: the empty-input check and the report *)
HeaderRow == <<"#Sample", "#SnpsAut", "#SNPsX", "#SnpsY", "NrAut", "NrX", "NrY",
               "x-rate", "y-rate", "Err(x-rate)", "Err(y-rate)", "Sex">>
Metadata == [name |-> "Metadata", idx |-> [tool_name |-> "Sex.DetERRmine", version |-> VERSION]]

\* The empty-input check with a comparison that never holds.
EmptyInputMut(a, x, y) == a + x + y < 0

\* Line 118
EmptyInput(a, x, y) == a + x + y = 0

\* The stream is exhausted; lines 118-126.
Finish ==
    /\ pc = "loop"
    /\ IF EmptyInput(AutSnps, XSnps, YSnps)
       THEN /\ Raise("IOError")
            /\ UNCHANGED <<out, data, todo>>
       ELSE /\ out' = Append(out, HeaderRow)
            /\ data' = <<Metadata>>
            /\ todo' = Names
            /\ pc' = "report"
            /\ UNCHANGED err
    /\ UNCHANGED <<useList, aggregates, fields, Chrom, lineNo, jsonFile, Ind, rate, rateErrSq>>

\* Lines 127-128: the next sample of the report loop and its CalcErrors call.
Estimate ==
    /\ pc = "report" /\ todo # <<>>
    /\ Ind' = Head(todo).name
    /\ todo' = Tail(todo)
    /\ LET i == Head(todo).idx
       IN  IF i >= Len(NrAut)
           THEN /\ Raise("IndexError")
                /\ UNCHANGED <<rate, rateErrSq>>
           ELSE LET r == CalcErrors(AutSnps, XSnps, YSnps, NrAut[i + 1], NrX[i + 1], NrY[i + 1])
                IN  IF r.ok
                    THEN /\ rate' = r.rate
                         /\ rateErrSq' = r.rateErrSq
                         /\ pc' = "classify"
                         /\ UNCHANGED err
                    ELSE /\ Raise("ZeroDivisionError")
                         /\ UNCHANGED <<rate, rateErrSq>>
    /\ UNCHANGED <<useList, aggregates, fields, Chrom, lineNo, out, data, jsonFile>>

\* Lines 129-144: classification, the sample's record and its row.
Classify ==
    /\ pc = "classify"
    /\ LET i == Lookup(Names, Ind)
           row == [Sample |-> Ind, SnpsAut |-> AutSnps, SnpsX |-> XSnps, SnpsY |-> YSnps,
                   NrAut |-> NrAut[i + 1], NrX |-> NrX[i + 1], NrY |-> NrY[i + 1],
                   RateX |-> rate["X"], RateY |-> rate["Y"],
                   RateErrSqX |-> rateErrSq["X"], RateErrSqY |-> rateErrSq["Y"],
                   Sex |-> determine_sex(rate["X"], rate["Y"])]
       IN  /\ data' = DictUpdate(data, Ind, row)
           /\ out' = Append(out, row)
    /\ pc' = "report"
    /\ UNCHANGED <<useList, aggregates, fields, Chrom, lineNo, err, jsonFile, todo, Ind, rate, rateErrSq>>

\* Lines 146-147
WriteJson ==
    /\ pc = "report" /\ todo = <<>>
    /\ jsonFile' = data
    /\ pc' = "done"
    /\ UNCHANGED <<useList, aggregates, fields, Chrom, lineNo, err, out, data, todo, Ind, rate, rateErrSq>>

----------------------------------------------------------------------------
Next ==
    \/ BlankLine
    \/ \E l \in HeaderLines : HeaderLine(l)
    \/ \E l \in DataLines : DataLine(l)
    \/ Finish
    \/ Estimate
    \/ Classify
    \/ WriteJson

Spec == Init /\ [][Next]_vars

----------------------------------------------------------------------------
(* The estimator and the report on larger aggregates: the state in which     *)
(* the main loop ends after lineNo data lines, for one or two listed samples. *)
(* A partition without sites has no depth. fields is the last line read: a   *)
(* line of the first partition that has sites, carrying a sample's whole     *)
(* depth when it is the only line of that partition.                         *)
EstSites == {<<1, 1, 1>>, <<100, 50, 10>>, <<1, 0, 0>>, <<0, 1, 0>>, <<0, 0, 1>>,
             <<1, 1, 0>>, <<1, 0, 1>>, <<0, 1, 1>>, <<0, 0, 0>>}
EstReads == {<<a, x, y>> : a \in {0, 100}, x \in {0, 34, 35, 65, 66, 79, 80, 100}, y \in {0, 4, 5, 9, 10}}
EstReadsMore == {<<>>, <<0, 0, 0>>, <<100, 100, 0>>, <<100, 35, 10>>}
Compatible(sites, reads) == \A i \in 1..Len(reads) : reads[i] > 0 => sites[i] > 0

LastLine(sites, reads) ==
    IF sites[1] + sites[2] + sites[3] = 0 THEN <<>>
    ELSE LET p == CHOOSE i \in 1..3 : sites[i] > 0 /\ \A j \in 1..(i - 1) : sites[j] = 0
             c == <<<<"7">>, <<"X">>, <<"Y">>>>[p]
         IN  <<c, "1">> \o [k \in 1..Len(reads) |-> IF sites[p] = 1 THEN ToString(reads[k][p]) ELSE "0"]

InitEst ==
    /\ useList = TRUE
    /\ bound = TRUE
    /\ \E sites \in EstSites, r1 \in EstReads, r2 \in EstReadsMore :
          /\ Compatible(sites, r1) /\ Compatible(sites, r2)
          /\ LET reads == IF r2 = <<>> THEN <<r1>> ELSE <<r1, r2>>
             IN  /\ Names = UpdateAll(<<>>, SubSeq(<<"A", "B">>, 1, Len(reads)), 1)
                 /\ NrAut = [k \in 1..Len(reads) |-> reads[k][1]]
                 /\ NrX = [k \in 1..Len(reads) |-> reads[k][2]]
                 /\ NrY = [k \in 1..Len(reads) |-> reads[k][3]]
                 /\ AutSnps = sites[1] /\ XSnps = sites[2] /\ YSnps = sites[3]
                 /\ fields = LastLine(sites, reads)
    /\ Chrom = IF fields = <<>> THEN <<>> ELSE StripChr(fields[1])
    /\ lineNo = AutSnps + XSnps + YSnps
    /\ pc = "loop" /\ err = ""
    /\ out = <<>> /\ data = <<>> /\ jsonFile = <<>>
    /\ todo = <<>> /\ Ind = "" /\ rate = <<>> /\ rateErrSq = <<>>

NextEst ==
    \/ Finish
    \/ Estimate
    \/ Classify
    \/ WriteJson

SpecEst == InitEst /\ [][NextEst]_vars

----------------------------------------------------------------------------
(* Properties *)

\* A step of the main loop that read a data line, a header line.
DataStep == lineNo' = lineNo + 1 /\ IsData(fields')
HeaderStep == lineNo' = lineNo + 1 /\ IsHeader(fields')

\* The partition rule as the specification words it, on the chromosome fields
\* of the input: "chrX" and "X" are X, "chrY" and "Y" are Y, the rest Autosome.
PartitionOf(f) ==
    IF f \in {<<"c", "h", "r", "X">>, <<"X">>} THEN "X"
    ELSE IF f \in {<<"c", "h", "r", "Y">>, <<"Y">>} THEN "Y"
    ELSE "Aut"

SitesOf(part, a, x, y) == IF part = "Aut" THEN a ELSE IF part = "X" THEN x ELSE y
DepthOf(part, a, x, y) == IF part = "Aut" THEN a ELSE IF part = "X" THEN x ELSE y
Partitions == {"Aut", "X", "Y"}

\* The sample rows printed so far (the first row of out is the header row).
Rows == {out[k] : k \in 2..Len(out)}

\* C1: every data line processed without error while the sample list is
\* resolved adds 1 to the site counter of the line's partition and to no
\* other, adds to every sample's summed depth of that partition the depth
\* value of the sample's column, and leaves the summed depths of the two
\* other partitions unchanged.
C1_DataLineAccounting ==
    [][(DataStep /\ bound /\ pc' = "loop") =>
         LET part == PartitionOf(fields'[1])
             toks == Drop(fields', 2)
         IN  /\ \A q \in Partitions :
                   SitesOf(q, AutSnps', XSnps', YSnps')
                     = SitesOf(q, AutSnps, XSnps, YSnps) + (IF q = part THEN 1 ELSE 0)
             /\ \A q \in Partitions \ {part} :
                   DepthOf(q, NrAut', NrX', NrY') = DepthOf(q, NrAut, NrX, NrY)
             /\ \A k \in 1..Len(Names) :
                   LET i == Names[k].idx + 1
                   IN  DepthOf(part, NrAut', NrX', NrY')[i]
                         = DepthOf(part, NrAut, NrX, NrY)[i] + int(toks[i])
      ]_vars

\* C2: when the stream is exhausted and held no data line (nothing, or header
\* lines only), the run has failed with the empty-input error and nothing was
\* printed, recorded or written.
C2_EmptyInputFails ==
    (/\ pc # "loop"
     /\ AutSnps = 0 /\ XSnps = 0 /\ YSnps = 0
     /\ (lineNo = 0 \/ IsHeader(fields)))
    => (pc = "error" /\ err = "IOError" /\ out = <<>> /\ data = <<>> /\ jsonFile = <<>>)

C2_Witness ==
    /\ pc = "error" /\ err = "IOError"
    /\ lineNo > 0 /\ IsHeader(fields)
    /\ out = <<>> /\ jsonFile = <<>>

\* C3: without a sample list, a data line read before any header line ends the
\* run with an error and is not counted into the site counters.
C3_DataBeforeHeaderFails ==
    [][(DataStep /\ ~useList /\ ~bound) =>
         (pc' = "error" /\ UNCHANGED <<AutSnps, XSnps, YSnps>>)]_vars

\* C4: without a sample list, a header line read after the first one leaves
\* the sample names, their column indices and the summed depths unchanged.
C4_LaterHeaderIgnored ==
    [][(HeaderStep /\ ~useList /\ bound) => UNCHANGED <<Names, NrAut, NrX, NrY>>]_vars

\* C5: past the empty-input check the estimator never divides by zero: when it
\* has returned for a sample the three site counts are nonzero, and it never
\* raises ZeroDivisionError.
C5_NoDivisionByZero ==
    /\ pc = "classify" => (AutSnps # 0 /\ XSnps # 0 /\ YSnps # 0)
    /\ err # "ZeroDivisionError"

IsC7Sample(i) ==
    /\ AutSnps = 100 /\ XSnps = 50 /\ YSnps = 10
    /\ NrAut[i] = 100 /\ NrX[i] = 100 /\ NrY[i] = 0
C7_WorkedExample ==
    /\ \A r \in Rows :
          IsC7Sample(Lookup(Names, r.Sample) + 1)
            => (r.RateX = <<2, 1>> /\ r.RateY = Zero /\ r.Sex = "Undetermined")
    /\ err = "ZeroDivisionError" => ~IsC7Sample(Lookup(Names, Ind) + 1)

\* C7 as amended: that sample is estimated without error at rate_X = 2,
\* rate_Y = 0 and classified Female (rate_X >= 0.8 and rate_Y < 0.05).
C7_WorkedExampleFemale ==
    /\ \A r \in Rows :
          IsC7Sample(Lookup(Names, r.Sample) + 1)
            => (r.RateX = <<2, 1>> /\ r.RateY = Zero /\ r.Sex = "Female")
    /\ err = "ZeroDivisionError" => ~IsC7Sample(Lookup(Names, Ind) + 1)

C7_Witness ==
    \E r \in Rows :
        IsC7Sample(Lookup(Names, r.Sample) + 1) /\ r.RateX = <<2, 1>> /\ r.Sex = "Female"

\* C8: a sample without depth in any partition is estimated without error,
\* whatever the site counts, at rates 0 and errors 0, and is classified
\* Undetermined.
IsZeroSample(i) == NrAut[i] = 0 /\ NrX[i] = 0 /\ NrY[i] = 0
C8_ZeroDepth ==
    /\ \A r \in Rows :
          IsZeroSample(Lookup(Names, r.Sample) + 1)
            => /\ r.RateX = Zero /\ r.RateY = Zero
               /\ r.RateErrSqX = Zero /\ r.RateErrSqY = Zero
               /\ r.Sex = "Undetermined"
    /\ err = "ZeroDivisionError" => ~IsZeroSample(Lookup(Names, Ind) + 1)

C8_Witness ==
    /\ XSnps = 0
    /\ \E r \in Rows : IsZeroSample(Lookup(Names, r.Sample) + 1) /\ r.Sex = "Undetermined"

\* C9: a data line whose depth tokens parse is counted in the partition that
\* the rule gives for its chromosome field, whatever the rest of the line and
\* of the state: "chrX", "X" in X, "chrY", "Y" in Y, "chr7", "7", "x", "y" in
\* Autosome; the summed depths of the other partitions are not touched.
C9_PartitionRule ==
    [][(DataStep /\ err' # "ValueError") =>
         LET part == PartitionOf(fields'[1])
         IN  /\ \A q \in Partitions :
                   SitesOf(q, AutSnps', XSnps', YSnps')
                     = SitesOf(q, AutSnps, XSnps, YSnps) + (IF q = part THEN 1 ELSE 0)
             /\ \A q \in Partitions \ {part} :
                   DepthOf(q, NrAut', NrX', NrY') = DepthOf(q, NrAut, NrX, NrY)
      ]_vars

C9_Witness ==
    /\ pc = "loop" /\ lineNo = MaxLines
    /\ fields[1] = <<"c", "h", "r", "X">>
    /\ XSnps = 2 /\ AutSnps = 1 /\ YSnps = 0
    /\ Len(NrX) = 2 /\ NrX[1] = 2 /\ NrAut[1] = 1

\* C10: a data line whose number of depth fields differs from the number of
\* resolved samples ends the run with an error.
C10_FieldCountMismatchFails ==
    [][(DataStep /\ bound /\ Len(Drop(fields', 2)) # Len(Names)) => pc' = "error"]_vars

====
